---- MODULE Spec2Model ----
(***************************************************************************)
(* Per-step and per-event data reduction of the alpha/beta contaminameter  *)
(* optical simulation: OpticalSimulationSteppingAction (boundary           *)
(* classification, creation counting, energy-deposition episodes) and      *)
(* OpticalSimulationEventAction (per-event reset, finalization, hand-over  *)
(* to the run-level writer).                                               *)
(*                                                                         *)
(* The transport toolkit is the environment: it owns the tracks, feeds one *)
(* stepping callback per step and processes the tracks of an event one     *)
(* after the other.  Everything it reports to the callback (defining       *)
(* process, step status, boundary status, volumes, positions, energies,    *)
(* the track status it has already set) is an input of the callback.       *)
(***************************************************************************)
EXTENDS Integers, Sequences, FiniteSets, TLC

\* ------------------------------------------------------------------ bounds
MaxCalls == 2        \* stepping callbacks in one run
MaxEvents == 2       \* events in one run
MaxScCalls == 3      \* stepping callbacks in one run of charged tracks only
MaxCores == 2        \* worker threads of a multithreaded run
MaxFills == 2        \* UpdateStatistics calls of one thread in a run
MaxArgc == 6         \* command-line words, the program name included
MaxPrimaries == 1    \* GeneratePrimaries calls of one thread in a run
MaxLines == 2        \* lines of an optical-property file

\* --------------------------------------------------- toolkit vocabularies
\* the threads of a run: 0 is the master (the only thread of a single-threaded
\* run), the others are the workers
Threads == 0 .. MaxCores

NoThread == -1

\* the words given for the MT argument, argv[4]
MTWords == {"ON", "OFF", "on"}

Volumes == {"World", "Holder", "ZnS", "Scintillator", "PMT_Glass", "Photocathode"}

BoundaryStatuses ==
    {"Undefined", "FresnelRefraction", "FresnelReflection",
     "TotalInternalReflection", "LambertianReflection", "LobeReflection",
     "SpikeReflection", "Absorption", "Detection", "NoRINDEX", "StepTooSmall"}

StepStatuses == {"fGeomBoundary", "fPostStepDoItProc"}

PhotonProcesses == {"Transportation", "OpAbsorption", "OpRayleigh"}

ChargedProcesses == {"Transportation", "eIoni"}

TrackStatuses == {"fAlive", "fStopAndKill"}

\* creator process of a track; "null" is the null pointer a primary carries
PhotonCreators == {"null", "Scintillation", "Cerenkov", "OpWLS"}

ChargedCreators == {"null", "eIoni"}

\* the phase-space point (position mm, direction) at which the steps that
\* start or end in a volume do so: one point per volume, two points in all
PointIn(vol) ==
    IF vol \in {"ZnS", "Photocathode"}
    THEN [x |-> 0, y |-> 0, z |-> 0, px |-> 0, py |-> 0, pz |-> 1]
    ELSE [x |-> 1, y |-> 2, z |-> 3, px |-> 1, py |-> 0, pz |-> 0]

\* energy of a track at its creation, by the volume it is created in:
\* eV for an optical photon (one emission line per material), MeV otherwise
BirthEnergy(vol) == IF vol = "ZnS" THEN 2 ELSE 1

\* the vocabularies of the multi-callback specification: one representative
\* per class of the classifier, and the volumes a track is created in
LeanBoundaryStatuses ==
    {"Detection", "Absorption", "NoRINDEX", "TotalInternalReflection"}

LeanPhotonProcesses == {"Transportation", "OpAbsorption"}

LeanPostVolumes == {"World", "Photocathode", "Scintillator"}

BirthVolumes == {"ZnS", "Scintillator", "PMT_Glass"}

\* the physics list deactivates the Cerenkov process
LeanPhotonCreators == {"null", "Scintillation", "OpWLS"}

LeanChargedVolumes == {"Holder", "Scintillator"}

LeanDeposits == {1, 2}

\* where a step of a charged track that starts in the ZnS layer or in the
\* scintillator ends: in the same detector volume, in the other one, or in the
\* holder around them
ScPostVolumes == {"ZnS", "Scintillator", "Holder"}

\* deposited energy of one step, keV
Deposits == {0, 1, 2}

\* length of every step, mm, and its duration, ns
StepLength == 1

StepTime == 1

\* PDG encodings
PDGElectron == 11

PDGOpticalPhoton == -22

VARIABLES
    phase,              \* "idle", "event" (between Begin- and EndOfEventAction), "crashed", "fault" (division by zero)
    nEvents,            \* events begun in this run
    nCalls,             \* stepping callbacks made in this run
    PhotonTrackStatus,  \* OpticalSimulationSteppingAction::PhotonTrackStatus
    preStep, postStep,  \* OpticalSimulationSteppingAction::preStep / postStep
    StatsInput,         \* OpticalSimulationEventAction::StatsInput
    StatsOptical,       \* OpticalSimulationEventAction::StatsOptical
    StatsZnS,           \* OpticalSimulationEventAction::StatsZnS
    StatsScintillator,  \* OpticalSimulationEventAction::StatsScintillator
    trk,                \* the track the toolkit is stepping (G4Track)
    cur,                \* what the observed stepping callback was given
    run,                \* what the run action has received (copies and fills)
    console,            \* the summary EndOfEventAction last printed
    prog,               \* main: its arguments, its position, what it has set up
    mt,                 \* the run actions of the threads and their static members
    mat                 \* OpticalSimulationMaterials: its members while it is constructed

vars == <<phase, nEvents, nCalls, PhotonTrackStatus, preStep, postStep,
          StatsInput, StatsOptical, StatsZnS, StatsScintillator, trk, cur, run,
          console, prog, mt, mat>>

\* ------------------------------------------------------ value-initialised
StepPoint0 == [x |-> 0, y |-> 0, z |-> 0, px |-> 0, py |-> 0, pz |-> 0]

RunTallyInput0 ==
    [x |-> 0, xp |-> 0, y |-> 0, yp |-> 0, z |-> 0, zp |-> 0, energy |-> 0]

RunTallyOptical0 ==
    [IncidentE |-> 0, DepositTotal |-> 0, DepositZnS |-> 0, DepositSc |-> 0,
     GeneratedTotal |-> 0, GeneratedZnS |-> 0, ScintillationZnS |-> 0,
     CerenkovZnS |-> 0, GeneratedSc |-> 0, ScintillationSc |-> 0,
     CerenkovSc |-> 0, BulkAbsTotal |-> 0, BulkAbsZnS |-> 0, BulkAbsSc |-> 0,
     Absorbed |-> 0, Escaped |-> 0, Failed |-> 0, Killed |-> 0, Detected |-> 0,
     DetectorPositionX |-> <<>>, DetectorPositionY |-> <<>>,
     DetectorPositionZ |-> <<>>, BirthWavelength |-> <<>>,
     BirthWavelengthDetected |-> <<>>, Time |-> <<>>, TotalLength |-> <<>>,
     Angle_creation |-> <<>>]

RunTallySc0 ==
    [x_entrance |-> <<>>, y_entrance |-> <<>>, z_entrance |-> <<>>,
     parentID |-> <<>>, particleID |-> <<>>, energy |-> <<>>,
     deposited_energy |-> 0, deposited_energy_event |-> 0,
     total_deposited_energy |-> <<>>, flag |-> FALSE]

\* the stay of a track in a detector volume: the volume, whether the track is
\* in it for the first time, the steps the track has made in it in a row, the
\* energy it has deposited in them, and whether the last of them ended in
\* 'Holder' or with no kinetic energy left
NoStay == [vol |-> "none", first |-> FALSE, k |-> 0, sum |-> 0, closed |-> FALSE]

\* the energy deposited so far in the event by the steps of non-optical
\* particles that start in each detector volume
NoDeposit == [ZnS |-> 0, Scintillator |-> 0]

NoTrack ==
    [id |-> 0, particle |-> "none", creator |-> "null", vol |-> "World",
     pos |-> StepPoint0, E |-> 0, stepNo |-> 0, status |-> "fStopAndKill",
     nTerminal |-> 0, stay |-> NoStay, been |-> {}, dep |-> NoDeposit]

NoStep ==
    [endproc |-> "none", volumeNamePreStep |-> "none", stepStatus |-> "none",
     boundaryStatus |-> "none", statusIn |-> "none"]

Run0 ==
    [StatsInput |-> RunTallyInput0, StatsZnS |-> RunTallySc0,
     StatsScintillator |-> RunTallySc0, StatsOptical |-> RunTallyOptical0,
     nInput |-> 0, nZnS |-> 0, nScintillator |-> 0, nOptical |-> 0,
     trees |-> TRUE, nErrors |-> 0]

\* nothing printed: the summary block of EndOfEventAction was not entered
NoReport ==
    [printed |-> FALSE, Absfrac |-> 0, BulkfracZnS |-> 0, BulkfracSc |-> 0,
     BulkfracTotal |-> 0, Escfrac |-> 0, Failfrac |-> 0, Killedfrac |-> 0]

\* main has not been entered
NoProgram ==
    [pc |-> "none", argc |-> 0, pMT |-> "none", argv5 |-> 0, hardware |-> 0,
     returns |-> FALSE, fatal |-> "none", exit |-> -1, flag_MT |-> FALSE,
     Ncores |-> 0, runManager |-> "uninitialized", used |-> FALSE,
     mode |-> "none"]

\* the run actions before a run: no thread is in a run action, fileMutex is
\* free, activeThreads is 0
NoFile == <<>>

NoRun ==
    [pc |-> [t \in Threads |-> "idle"],
     fileMutex |-> NoThread,
     activeThreads |-> 0,
     a |-> [t \in Threads |-> -1],
     fileName |-> [t \in Threads |-> NoFile],
     f |-> [t \in Threads |-> FALSE],
     fills |-> [t \in Threads |-> 0],
     order |-> <<>>,
     currentParticleNumber |-> 0,
     generated |-> [t \in Threads |-> 0],
     shown |-> [t \in Threads |-> 0]]

\* the state of a std::ifstream member: what it has open, how far it has
\* read, and its eofbit
NoStream == [is_open |-> FALSE, eof |-> FALSE, pos |-> 0]

\* a file of the input directory: whether it can be opened, its number of
\* lines, and whether its last line ends with a newline
NoSuchFile == [exists |-> FALSE, n |-> 0, nl |-> FALSE]

\* the property vectors of OpticalSimulationMaterials, default-constructed
NoVectors ==
    [Emission_Energy |-> <<>>, Emission_Ratio |-> <<>>,
     Absorption_Energy |-> <<>>, Absorption_Long |-> <<>>,
     Index_Energy |-> <<>>, Index_Value |-> <<>>]

\* G4double var; G4double pWavelength; have no initialiser
Indeterminate == -1

\* OpticalSimulationMaterials before its constructor runs; opened records the
\* files the material blocks asked for, table what AddProperty was given
NoMaterials ==
    [pc |-> "new", block |-> 0, stream |-> 0,
     pWavelength |-> Indeterminate, var |-> Indeterminate,
     s |-> NoStream, disk |-> NoSuchFile,
     v |-> NoVectors,
     log |-> {},
     opened |-> [b \in 1 .. 2 |-> [k \in 1 .. 3 |-> NoSuchFile]],
     table |-> [b \in 1 .. 2 |-> NoVectors]]

Init ==
    /\ mat = NoMaterials
    /\ phase = "idle"
    /\ nEvents = 0
    /\ nCalls = 0
    /\ PhotonTrackStatus = TRUE
    /\ preStep = StepPoint0
    /\ postStep = StepPoint0
    /\ StatsInput = RunTallyInput0
    /\ StatsOptical = RunTallyOptical0
    /\ StatsZnS = RunTallySc0
    /\ StatsScintillator = RunTallySc0
    /\ trk = NoTrack
    /\ cur = NoStep
    /\ run = Run0
    /\ console = NoReport
    /\ prog = NoProgram
    /\ mt = NoRun

\* ------------------------------------------------------------ conversions
\* acos((postStep.x - preStep.x) / stepLength) / deg, for |dx| <= StepLength
AcosDeg(dx) ==
    CASE dx = StepLength -> 0
      [] dx = 0 -> 90
      [] dx = -StepLength -> 180

\* 1240 / (E / eV), nanometres
Wavelength(E) == 1240 \div E

\* the parent ID of a track: 0 for a primary, which has no creator process
ParentID(t) == IF t.creator = "null" THEN 0 ELSE 1

ParticleID(t) == IF t.particle = "opticalphoton" THEN PDGOpticalPhoton ELSE PDGElectron

\* --------------------------------------- OpticalSimulationEventAction.hh
CountCerenkovZnS(so) == [so EXCEPT !.CerenkovZnS = @ + 1]

CountCerenkovSc(so) == [so EXCEPT !.CerenkovSc = @ + 1]

CountScintillationZnS(so) == [so EXCEPT !.ScintillationZnS = @ + 1]

CountScintillationSc(so) == [so EXCEPT !.ScintillationSc = @ + 1]

CountKilled(so) == [so EXCEPT !.Killed = @ + 1]

CountDetected(so) == [so EXCEPT !.Detected = @ + 1]

CountAbsorbed(so) == [so EXCEPT !.Absorbed = @ + 1]

CountBulkAbsSc(so) == [so EXCEPT !.BulkAbsSc = @ + 1]

CountBulkAbsZnS(so) == [so EXCEPT !.BulkAbsZnS = @ + 1]

CountEscaped(so) == [so EXCEPT !.Escaped = @ + 1]

CountFailed(so) == [so EXCEPT !.Failed = @ + 1]

\* ------------------------------------- OpticalSimulationSteppingAction.cc
SetInputInformations(pre, energy) ==
    [x |-> pre.x, xp |-> pre.px, y |-> pre.y, yp |-> pre.py,
     z |-> pre.z, zp |-> pre.pz, energy |-> energy]

\* the switch with the test on the next volume left out of its Absorption case
BoundarySwitchNoPhotocathode(so, boundaryStatus, nextVolume, post, E, time, length) ==
    CASE boundaryStatus = "Detection" ->
           [CountDetected(so) EXCEPT
              !.DetectorPositionX = Append(@, post.x),
              !.DetectorPositionY = Append(@, post.y),
              !.DetectorPositionZ = Append(@, post.z),
              !.BirthWavelengthDetected = Append(@, Wavelength(E)),
              !.Time = Append(@, time),
              !.TotalLength = Append(@, length)]
      [] boundaryStatus = "Absorption" -> CountAbsorbed(so)
      [] boundaryStatus = "NoRINDEX" -> CountEscaped(so)
      [] OTHER -> so

\* the switch with FillPhotonTime left out of its Detection case
BoundarySwitchNoTime(so, boundaryStatus, nextVolume, post, E, time, length) ==
    CASE boundaryStatus = "Detection" ->
           [CountDetected(so) EXCEPT
              !.DetectorPositionX = Append(@, post.x),
              !.DetectorPositionY = Append(@, post.y),
              !.DetectorPositionZ = Append(@, post.z),
              !.BirthWavelengthDetected = Append(@, Wavelength(E)),
              !.TotalLength = Append(@, length)]
      [] boundaryStatus = "Absorption" ->
           IF nextVolume = "Photocathode" THEN CountFailed(so)
           ELSE CountAbsorbed(so)
      [] boundaryStatus = "NoRINDEX" -> CountEscaped(so)
      [] OTHER -> so

\* the switch on the boundary status, taken on a geometric boundary only
BoundarySwitch(so, boundaryStatus, nextVolume, post, E, time, length) ==
    CASE boundaryStatus = "Detection" ->
           [CountDetected(so) EXCEPT
              !.DetectorPositionX = Append(@, post.x),
              !.DetectorPositionY = Append(@, post.y),
              !.DetectorPositionZ = Append(@, post.z),
              !.BirthWavelengthDetected = Append(@, Wavelength(E)),
              !.Time = Append(@, time),
              !.TotalLength = Append(@, length)]
      [] boundaryStatus = "Absorption" ->
           IF nextVolume = "Photocathode" THEN CountFailed(so)
           ELSE CountAbsorbed(so)
      [] boundaryStatus = "NoRINDEX" -> CountEscaped(so)
      [] OTHER -> so

\* the bulk rule counting for the scintillator only a photon absorbed in it
BulkAbsorptionInDetectorsOnly(so, endproc, volumeNamePreStep) ==
    IF endproc = "OpAbsorption"
    THEN IF volumeNamePreStep = "ZnS" THEN CountBulkAbsZnS(so)
         ELSE IF volumeNamePreStep = "Scintillator" THEN CountBulkAbsSc(so)
         ELSE so
    ELSE so

BulkAbsorption(so, endproc, volumeNamePreStep) ==
    IF endproc = "OpAbsorption"
    THEN IF volumeNamePreStep = "ZnS" THEN CountBulkAbsZnS(so)
         ELSE CountBulkAbsSc(so)
    ELSE so

CheckBoundaryStatus(so, endproc, volumeNamePreStep, stepStatus, boundaryStatus, nextVolume, post, E, time, length) ==
    LET bulk == BulkAbsorption(so, endproc, volumeNamePreStep)
    IN  IF stepStatus = "fGeomBoundary"
        THEN BoundarySwitch(bulk, boundaryStatus, nextVolume, post, E, time, length)
        ELSE bulk

CountScintillation(so, volumeNamePreStep) ==
    LET zns == IF volumeNamePreStep = "ZnS" THEN CountScintillationZnS(so) ELSE so
    IN  IF volumeNamePreStep = "Scintillator" THEN CountScintillationSc(zns) ELSE zns

CountCerenkov(so, volumeNamePreStep) ==
    LET zns == IF volumeNamePreStep = "ZnS" THEN CountCerenkovZnS(so) ELSE so
    IN  IF volumeNamePreStep = "Scintillator" THEN CountCerenkovSc(zns) ELSE zns

SetPhotonBirthInformation(so, angle, E) ==
    [so EXCEPT !.Angle_creation = Append(@, angle),
               !.BirthWavelength = Append(@, Wavelength(E))]

\* UpdateSc closing an episode without ResetFlag
UpdateScKeepsFlag(tally, p, energy, energyDeposited, energy_post, parentID, particleID, volumeNamePostStep) ==
    LET entered ==
          IF ~tally.flag
          THEN [tally EXCEPT !.x_entrance = Append(@, p.x),
                             !.y_entrance = Append(@, p.y),
                             !.z_entrance = Append(@, p.z),
                             !.parentID = Append(@, parentID),
                             !.particleID = Append(@, particleID),
                             !.energy = Append(@, energy),
                             !.flag = TRUE]
          ELSE tally
        added == [entered EXCEPT !.deposited_energy = @ + energyDeposited,
                                 !.deposited_energy_event = @ + energyDeposited]
    IN  IF volumeNamePostStep = "Holder" \/ energy_post = 0
        THEN [added EXCEPT
                !.total_deposited_energy = Append(@, added.deposited_energy),
                !.deposited_energy = 0]
        ELSE added

\* UpdateSc without AddDepositedEnergyEvent
UpdateScNoEventSum(tally, p, energy, energyDeposited, energy_post, parentID, particleID, volumeNamePostStep) ==
    LET entered ==
          IF ~tally.flag
          THEN [tally EXCEPT !.x_entrance = Append(@, p.x),
                             !.y_entrance = Append(@, p.y),
                             !.z_entrance = Append(@, p.z),
                             !.parentID = Append(@, parentID),
                             !.particleID = Append(@, particleID),
                             !.energy = Append(@, energy),
                             !.flag = TRUE]
          ELSE tally
        added == [entered EXCEPT !.deposited_energy = @ + energyDeposited]
    IN  IF volumeNamePostStep = "Holder" \/ energy_post = 0
        THEN [added EXCEPT
                !.total_deposited_energy = Append(@, added.deposited_energy),
                !.deposited_energy = 0,
                !.flag = FALSE]
        ELSE added

UpdateSc(tally, p, energy, energyDeposited, energy_post, parentID, particleID, volumeNamePostStep) ==
    LET entered ==
          IF ~tally.flag
          THEN [tally EXCEPT !.x_entrance = Append(@, p.x),
                             !.y_entrance = Append(@, p.y),
                             !.z_entrance = Append(@, p.z),
                             !.parentID = Append(@, parentID),
                             !.particleID = Append(@, particleID),
                             !.energy = Append(@, energy),
                             !.flag = TRUE]
          ELSE tally
        added == [entered EXCEPT !.deposited_energy = @ + energyDeposited,
                                 !.deposited_energy_event = @ + energyDeposited]
    IN  IF volumeNamePostStep = "Holder" \/ energy_post = 0
        THEN [added EXCEPT
                !.total_deposited_energy = Append(@, added.deposited_energy),
                !.deposited_energy = 0,
                !.flag = FALSE]
        ELSE added

\* the six terminal counters of the classifier
TerminalSum(so) ==
    so.Detected + so.Absorbed + so.BulkAbsZnS + so.BulkAbsSc + so.Escaped + so.Failed

CreationSum(so) ==
    so.ScintillationZnS + so.ScintillationSc + so.CerenkovZnS + so.CerenkovSc

\* the optical-photon branch with the first-step block inside the branch of
\* tracked photons, so that a killed photon leaves no record of its creation
PhotonBranchShortCircuit(so, tracking, statusIn, stepNo, creator, endproc, volumeNamePreStep, stepStatus, boundaryStatus, nextVolume, post, E, time, length, angle) ==
    LET classified ==
          IF ~tracking THEN CountKilled(so)
          ELSE CheckBoundaryStatus(so, endproc, volumeNamePreStep, stepStatus,
                                   boundaryStatus, nextVolume, post, E, time, length)
        first == tracking /\ stepNo = 1
        born == IF first THEN SetPhotonBirthInformation(classified, angle, E)
                ELSE classified
        scint == IF first /\ creator = "Scintillation"
                 THEN CountScintillation(born, volumeNamePreStep) ELSE born
        ceren == IF first /\ creator = "Cerenkov"
                 THEN CountCerenkov(scint, volumeNamePreStep) ELSE scint
    IN  [so |-> ceren,
         status |-> IF ~tracking THEN "fStopAndKill" ELSE statusIn,
         crashed |-> (first /\ creator = "null")]

\* the optical-photon branch of UserSteppingAction: the record of the new
\* optical statistics, the track status it leaves and whether the null
\* creator process of a primary photon was dereferenced
PhotonBranch(so, tracking, statusIn, stepNo, creator, endproc, volumeNamePreStep, stepStatus, boundaryStatus, nextVolume, post, E, time, length, angle) ==
    LET classified ==
          IF ~tracking THEN CountKilled(so)
          ELSE CheckBoundaryStatus(so, endproc, volumeNamePreStep, stepStatus,
                                   boundaryStatus, nextVolume, post, E, time, length)
        born == IF stepNo = 1 THEN SetPhotonBirthInformation(classified, angle, E)
                ELSE classified
        scint == IF stepNo = 1 /\ creator = "Scintillation"
                 THEN CountScintillation(born, volumeNamePreStep) ELSE born
        ceren == IF stepNo = 1 /\ creator = "Cerenkov"
                 THEN CountCerenkov(scint, volumeNamePreStep) ELSE scint
    IN  [so |-> ceren,
         status |-> IF ~tracking THEN "fStopAndKill" ELSE statusIn,
         crashed |-> (stepNo = 1 /\ creator = "null")]

\* the rule on the 'World' volume with the name misspelt
WorldKillLowerCase(status, volumeNamePostStep) ==
    IF volumeNamePostStep = "world" THEN "fStopAndKill" ELSE status

\* the rule on the 'World' volume that ends the callback
WorldKill(status, volumeNamePostStep) ==
    IF volumeNamePostStep = "World" THEN "fStopAndKill" ELSE status

\* the stay of the track after a step that starts in a detector volume
StayAfter(stay, been, volumeNamePreStep, energyDeposited, volumeNamePostStep, energy_post) ==
    LET going == stay.vol = volumeNamePreStep /\ ~stay.closed
    IN  [vol |-> volumeNamePreStep,
         first |-> IF going THEN stay.first ELSE volumeNamePreStep \notin been,
         k |-> (IF going THEN stay.k ELSE 0) + 1,
         sum |-> (IF going THEN stay.sum ELSE 0) + energyDeposited,
         closed |-> (volumeNamePostStep = "Holder" \/ energy_post = 0)]

\* One stepping callback for the track being stepped, as far as the program's
\* own state goes.
Callback(endproc, stepStatus, boundaryStatus, volumeNamePostStep, statusIn, energyDeposited, energy_post) ==
    /\ phase = "event"
    /\ trk.status = "fAlive"
    /\ LET particleName == trk.particle
           stepNo == trk.stepNo + 1
           energy == trk.E
           angle == AcosDeg(postStep.x - preStep.x)
           time == stepNo * StepTime
           length == stepNo * StepLength
           pre == trk.pos
           post == PointIn(volumeNamePostStep)
           volumeNamePreStep == trk.vol
           isSc == volumeNamePreStep \in {"ZnS", "Scintillator"}
                     /\ particleName # "opticalphoton"
           ph == IF particleName = "opticalphoton"
                 THEN PhotonBranch(StatsOptical, PhotonTrackStatus, statusIn,
                                   stepNo, trk.creator, endproc, volumeNamePreStep,
                                   stepStatus, boundaryStatus, volumeNamePostStep,
                                   post, energy, time, length, angle)
                 ELSE [so |-> StatsOptical, status |-> statusIn, crashed |-> FALSE]
           status == IF ph.crashed THEN ph.status
                     ELSE WorldKill(ph.status, volumeNamePostStep)
       IN  /\ preStep' = pre
           /\ postStep' = post
           /\ StatsInput' = IF ParentID(trk) = 0 /\ stepNo = 1
                            THEN SetInputInformations(pre, energy)
                            ELSE StatsInput
           /\ StatsZnS' = IF isSc /\ volumeNamePreStep = "ZnS"
                          THEN UpdateSc(StatsZnS, pre, energy, energyDeposited,
                                        energy_post, ParentID(trk), ParticleID(trk),
                                        volumeNamePostStep)
                          ELSE StatsZnS
           /\ StatsScintillator' =
                          IF isSc /\ volumeNamePreStep = "Scintillator"
                          THEN UpdateSc(StatsScintillator, pre, energy, energyDeposited,
                                        energy_post, ParentID(trk), ParticleID(trk),
                                        volumeNamePostStep)
                          ELSE StatsScintillator
           /\ StatsOptical' = ph.so
           /\ trk' = [trk EXCEPT !.stepNo = stepNo,
                                 !.vol = volumeNamePostStep,
                                 !.pos = post,
                                 !.E = energy_post,
                                 !.status = status,
                                 !.nTerminal = @ + TerminalSum(ph.so)
                                                 - TerminalSum(StatsOptical),
                                 !.stay = IF isSc
                                          THEN StayAfter(@, trk.been,
                                                         volumeNamePreStep,
                                                         energyDeposited,
                                                         volumeNamePostStep,
                                                         energy_post)
                                          ELSE NoStay,
                                 !.been = IF isSc
                                          THEN @ \cup {volumeNamePreStep}
                                          ELSE @,
                                 !.dep = IF isSc
                                         THEN [@ EXCEPT ![volumeNamePreStep] =
                                                          @ + energyDeposited]
                                         ELSE @]
           /\ phase' = IF ph.crashed THEN "crashed" ELSE "event"
    /\ nCalls' = nCalls + 1
    /\ UNCHANGED <<nEvents, PhotonTrackStatus, run, console,
                   prog, mt, mat>>

\* what a callback was given by the toolkit
Given(endproc, volumeNamePreStep, stepStatus, boundaryStatus, statusIn) ==
    [endproc |-> endproc, volumeNamePreStep |-> volumeNamePreStep,
     stepStatus |-> stepStatus, boundaryStatus |-> boundaryStatus,
     statusIn |-> statusIn]

\* a step of an optical photon
StepOpticalPhoton ==
    /\ trk.particle = "opticalphoton"
    /\ nCalls < MaxCalls
    /\ \E endproc \in LeanPhotonProcesses, stepStatus \in StepStatuses,
          boundaryStatus \in LeanBoundaryStatuses, post \in LeanPostVolumes,
          statusIn \in TrackStatuses :
          Callback(endproc, stepStatus, boundaryStatus, post, statusIn, 0, trk.E)
    /\ UNCHANGED cur

\* a step of any other particle; the callback reads neither the step status
\* nor the boundary status for it
StepCharged ==
    /\ trk.particle = "e-"
    /\ nCalls < MaxCalls
    /\ \E post \in LeanChargedVolumes, statusIn \in TrackStatuses,
          energyDeposited \in LeanDeposits, energy_post \in {0, trk.E} :
          Callback("eIoni", "none", "none", post, statusIn,
                   energyDeposited, energy_post)
    /\ UNCHANGED cur

\* a first step of a photon that classifies nothing and leaves it alive, before
\* the observed callback of the single-callback specification
QuietFirstStep ==
    /\ nCalls = 0
    /\ cur = NoStep
    /\ StepOpticalPhoton
    /\ trk'.status = "fAlive"
    /\ TerminalSum(StatsOptical') = 0

\* the one callback of the single-callback specification: every vocabulary in
\* full, and what the callback was given is kept
ObservedPhotonStep ==
    /\ trk.particle = "opticalphoton"
    /\ cur = NoStep
    /\ \E endproc \in PhotonProcesses, stepStatus \in StepStatuses,
          boundaryStatus \in BoundaryStatuses, post \in Volumes,
          statusIn \in TrackStatuses :
          /\ Callback(endproc, stepStatus, boundaryStatus, post, statusIn, 0, trk.E)
          /\ cur' = Given(endproc, trk.vol, stepStatus, boundaryStatus, statusIn)

ObservedChargedStep ==
    /\ trk.particle = "e-"
    /\ cur = NoStep
    /\ \E endproc \in ChargedProcesses, post \in Volumes,
          statusIn \in TrackStatuses, energyDeposited \in Deposits,
          energy_post \in 0..trk.E :
          /\ Callback(endproc, "none", "none", post, statusIn,
                      energyDeposited, energy_post)
          /\ cur' = Given(endproc, trk.vol, "none", "none", statusIn)

\* The toolkit takes the next track of the event from its stack.
TrackFromStack(particle, creator, vol) ==
    /\ phase = "event"
    /\ trk.status # "fAlive"
    /\ trk' = [id |-> trk.id + 1, particle |-> particle, creator |-> creator,
               vol |-> vol, pos |-> PointIn(vol), E |-> BirthEnergy(vol),
               stepNo |-> 0, status |-> "fAlive", nTerminal |-> 0,
               stay |-> NoStay, been |-> {}, dep |-> trk.dep]
    /\ UNCHANGED <<phase, nEvents, nCalls, PhotonTrackStatus, preStep, postStep,
                   StatsInput, StatsOptical, StatsZnS, StatsScintillator, cur, run,
                   console,
                   prog, mt, mat>>

NewTrack ==
    /\ nCalls < MaxCalls
    /\ \/ \E creator \in LeanPhotonCreators, vol \in BirthVolumes :
             TrackFromStack("opticalphoton", creator, vol)
       \/ \E creator \in ChargedCreators :
             TrackFromStack("e-", creator, "ZnS")

\* a charged track of the charged-tracks specification, created in the ZnS layer
NewChargedTrack ==
    /\ nCalls < MaxScCalls
    /\ \E creator \in ChargedCreators : TrackFromStack("e-", creator, "ZnS")

\* a step of a charged track in the charged-tracks specification; the toolkit
\* ends an electron that has no kinetic energy left
ChargedStep ==
    /\ trk.particle = "e-"
    /\ nCalls < MaxScCalls
    /\ \E post \in ScPostVolumes, statusIn \in TrackStatuses,
          energyDeposited \in LeanDeposits, energy_post \in {0, trk.E} :
          /\ energy_post = 0 => statusIn = "fStopAndKill"
          /\ Callback("eIoni", "none", "none", post, statusIn,
                      energyDeposited, energy_post)
    /\ UNCHANGED cur

\* the first track of the single-callback specification
FirstTrack ==
    /\ trk = NoTrack
    /\ \/ \E creator \in PhotonCreators, vol \in Volumes :
             TrackFromStack("opticalphoton", creator, vol)
       \/ \E creator \in ChargedCreators, vol \in Volumes :
             TrackFromStack("e-", creator, vol)

\* /OpticalSimulation/step/setPhotonTrackStatus, a macro command applied
\* before the events of the run
SetPhotonTrackStatus(b) ==
    /\ phase = "idle"
    /\ nEvents = 0
    /\ PhotonTrackStatus # b
    /\ PhotonTrackStatus' = b
    /\ UNCHANGED <<phase, nEvents, nCalls, preStep, postStep, StatsInput,
                   StatsOptical, StatsZnS, StatsScintillator, trk, cur, run,
                   console,
                   prog, mt, mat>>

\* ---------------------------------------- OpticalSimulationEventAction.cc
\* BeginOfEventAction without the reset of the ZnS tally
BeginOfEventActionKeepsZnS ==
    /\ phase = "idle"
    /\ nEvents < MaxEvents
    /\ nEvents' = nEvents + 1
    /\ StatsInput' = RunTallyInput0
    /\ StatsOptical' = RunTallyOptical0
    /\ StatsScintillator' = RunTallySc0
    /\ trk' = NoTrack
    /\ phase' = "event"
    /\ UNCHANGED <<nCalls, PhotonTrackStatus, preStep, postStep, cur, run,
                   console, StatsZnS, prog, mt, mat>>

BeginOfEventAction ==
    /\ phase = "idle"
    /\ nEvents < MaxEvents
    /\ nEvents' = nEvents + 1
    /\ StatsInput' = RunTallyInput0
    /\ StatsOptical' = RunTallyOptical0
    /\ StatsZnS' = RunTallySc0
    /\ StatsScintillator' = RunTallySc0
    /\ trk' = NoTrack
    /\ phase' = "event"
    /\ UNCHANGED <<nCalls, PhotonTrackStatus, preStep, postStep, cur, run,
                   console,
                   prog, mt, mat>>

\* the percentages of the summary block: int / int, then stored in a float
Fractions(so) ==
    LET BulkfracZnS == (100 * so.BulkAbsZnS) \div so.GeneratedTotal
        BulkfracSc == (100 * so.BulkAbsSc) \div so.GeneratedTotal
    IN  [printed |-> TRUE,
         Absfrac |-> (100 * so.Absorbed) \div so.GeneratedTotal,
         BulkfracZnS |-> BulkfracZnS,
         BulkfracSc |-> BulkfracSc,
         BulkfracTotal |-> BulkfracZnS + BulkfracSc,
         Escfrac |-> (100 * so.Escaped) \div so.GeneratedTotal,
         Failfrac |-> (100 * so.Failed) \div so.GeneratedTotal,
         Killedfrac |-> (100 * so.Killed) \div so.GeneratedTotal]

\* the derivation block of EndOfEventAction: the optical record it leaves,
\* what it prints, and whether it divides by a zero total
DeriveBlock(so, si, zns, sc) ==
    LET GeneratedSc == so.ScintillationSc + so.CerenkovSc
        GeneratedZnS == so.ScintillationZnS + so.CerenkovZnS
        derived ==
          [so EXCEPT
             !.IncidentE = si.energy,
             !.DepositTotal = sc.deposited_energy_event + zns.deposited_energy_event,
             !.DepositSc = sc.deposited_energy_event,
             !.DepositZnS = zns.deposited_energy_event,
             !.GeneratedSc = GeneratedSc,
             !.GeneratedZnS = GeneratedZnS,
             !.GeneratedTotal = GeneratedSc + GeneratedZnS,
             !.BulkAbsTotal = so.BulkAbsSc + so.BulkAbsZnS]
    IN  [so |-> derived,
         fault |-> derived.GeneratedTotal = 0,
         report |-> IF derived.GeneratedTotal = 0 THEN NoReport
                    ELSE Fractions(derived)]

\* the derivation block entered for every event
DeriveUnguarded(so, si, zns, sc) ==
    DeriveBlock(so, si, zns, sc)

\* the derivation block entered when a photon was generated in the scintillator
DeriveWhenGenerated(so, si, zns, sc) ==
    IF so.ScintillationSc > 0
    THEN DeriveBlock(so, si, zns, sc)
    ELSE [so |-> so, fault |-> FALSE, report |-> NoReport]

\* the derivation block behind its guard
Derive(so, si, zns, sc) ==
    IF so.ScintillationSc < 0
    THEN DeriveBlock(so, si, zns, sc)
    ELSE [so |-> so, fault |-> FALSE, report |-> NoReport]

\* OpticalSimulationRunAction::UpdateStatistics after stats = newStats:
\* if (tree) tree->Fill(); else an error is written
FillTree(r, counter) ==
    IF r.trees THEN [r EXCEPT ![counter] = @ + 1]
    ELSE [r EXCEPT !.nErrors = @ + 1]

\* OpticalSimulationRunAction::UpdateStatistics for the three records that are
\* emitted only when they hold something
UpdateStatisticsInput(r, si) ==
    IF si.energy > 0
    THEN FillTree([r EXCEPT !.StatsInput = si], "nInput") ELSE r

UpdateStatisticsZnS(r, zns) ==
    IF zns.energy # <<>>
    THEN FillTree([r EXCEPT !.StatsZnS = zns], "nZnS") ELSE r

UpdateStatisticsScintillator(r, sc) ==
    IF sc.energy # <<>>
    THEN FillTree([r EXCEPT !.StatsScintillator = sc], "nScintillator") ELSE r

\* the optical record emitted only when the event recorded a photon
UpdateStatisticsOpticalIfAny(r, so) ==
    IF so.Angle_creation # <<>>
    THEN FillTree([r EXCEPT !.StatsOptical = so], "nOptical") ELSE r

UpdateStatisticsOptical(r, so) ==
    FillTree([r EXCEPT !.StatsOptical = so], "nOptical")

\* the body of EndOfEventAction; a division by a zero total ends the process
\* before the optical record is emitted
Finalize ==
    LET d == Derive(StatsOptical, StatsInput, StatsZnS, StatsScintillator)
        emitted == UpdateStatisticsScintillator(
                     UpdateStatisticsZnS(
                       UpdateStatisticsInput(run, StatsInput), StatsZnS),
                     StatsScintillator)
    IN  /\ StatsOptical' = d.so
        /\ console' = IF d.fault THEN console ELSE d.report
        /\ run' = IF d.fault THEN emitted ELSE UpdateStatisticsOptical(emitted, d.so)
        /\ phase' = IF d.fault THEN "fault" ELSE "idle"
        /\ UNCHANGED <<nEvents, nCalls, PhotonTrackStatus, preStep, postStep,
                       StatsInput, StatsZnS, StatsScintillator, trk, cur,
                       prog, mt, mat>>

EndOfEventAction ==
    /\ phase = "event"
    /\ trk.status # "fAlive"
    /\ Finalize

\* EndOfEventAction called once more for the event that has just been
\* finalized, with no BeginOfEventAction in between
EndOfEventActionAgain ==
    /\ phase = "idle"
    /\ nEvents > 0
    /\ run.nOptical <= nEvents
    /\ Finalize

Next ==
    \/ BeginOfEventAction
    \/ NewTrack
    \/ StepOpticalPhoton
    \/ StepCharged
    \/ EndOfEventAction
    \/ \E b \in BOOLEAN : SetPhotonTrackStatus(b)

Spec == Init /\ [][Next]_vars

\* one track, and one observed callback over the full vocabularies
NextStep ==
    \/ BeginOfEventAction
    \/ FirstTrack
    \/ QuietFirstStep
    \/ ObservedPhotonStep
    \/ ObservedChargedStep
    \/ EndOfEventAction
    \/ \E b \in BOOLEAN : SetPhotonTrackStatus(b)

SpecStep == Init /\ [][NextStep]_vars

\* charged tracks only, up to MaxScCalls steps of them
NextSc ==
    \/ BeginOfEventAction
    \/ NewChargedTrack
    \/ ChargedStep
    \/ EndOfEventAction

SpecSc == Init /\ [][NextSc]_vars

\* the events of a run action whose BeginOfRunAction has not created the
\* trees: Tree_Input, Tree_ZnS, Tree_Scintillator and Tree_Optical are null
TreesNotCreated ==
    /\ phase = "idle"
    /\ nEvents = 0
    /\ run.trees
    /\ run' = [run EXCEPT !.trees = FALSE]
    /\ UNCHANGED <<phase, nEvents, nCalls, PhotonTrackStatus, preStep, postStep,
                   StatsInput, StatsOptical, StatsZnS, StatsScintillator, trk,
                   cur, console, prog, mt, mat>>

\* the callbacks of an event, with or without the trees
NextNull ==
    \/ TreesNotCreated
    \/ BeginOfEventAction
    \/ NewTrack
    \/ StepOpticalPhoton
    \/ StepCharged
    \/ EndOfEventAction
    \/ \E b \in BOOLEAN : SetPhotonTrackStatus(b)

SpecNull == Init /\ [][NextNull]_vars

\* the callbacks of an event, and a second finalization of an event
NextEnd ==
    \/ BeginOfEventAction
    \/ NewTrack
    \/ StepOpticalPhoton
    \/ StepCharged
    \/ EndOfEventAction
    \/ EndOfEventActionAgain
    \/ \E b \in BOOLEAN : SetPhotonTrackStatus(b)

SpecEnd == Init /\ [][NextEnd]_vars

\* ------------------------------------------------------------------- main
\* UNCHANGED for the steps of main and of the run actions
EventState ==
    <<phase, nEvents, nCalls, PhotonTrackStatus, preStep, postStep, StatsInput,
      StatsOptical, StatsZnS, StatsScintillator, trk, cur, run, console>>

\* G4Exception(origin, code, FatalException, text): the toolkit prints the
\* text and calls abort(), unless the abort is suppressed and the call returns
G4Exception(p, code) ==
    IF p.returns
    THEN [p EXCEPT !.fatal = code]
    ELSE [p EXCEPT !.fatal = code, !.pc = "aborted"]

\* the process is started with argc words; argv[4] and argv[5] are there when
\* argc is large enough
main(argc, pMT, argv5, hardware, returns) ==
    /\ prog.pc = "none"
    /\ pMT = "none" <=> argc < 5
    /\ argv5 = 0 <=> argc < 6
    /\ prog' = [prog EXCEPT !.pc = "start", !.argc = argc, !.pMT = pMT,
                            !.argv5 = argv5, !.hardware = hardware,
                            !.returns = returns, !.Ncores = hardware]
    /\ UNCHANGED <<EventState, mt, mat>>

\* if (argc < 2) { G4Exception(... "main0004" ...); return 1; }
mainCheckArguments ==
    /\ prog.pc = "start"
    /\ prog' = IF prog.argc < 2
               THEN LET p == G4Exception(prog, "main0004")
                    IN  IF p.pc = "aborted" THEN p
                        ELSE [p EXCEPT !.pc = "exited", !.exit = 1]
               ELSE [prog EXCEPT !.pc = "mode"]
    /\ UNCHANGED <<EventState, mt, mat>>

\* the choice of the run manager
mainDetermineMode ==
    /\ prog.pc = "mode"
    /\ prog' =
         LET go == [prog EXCEPT !.pc = "setup"]
         IN  IF prog.argc = 2
             THEN [go EXCEPT !.runManager = "G4RunManager", !.mode = "visualization"]
             ELSE IF prog.argc >= 5
             THEN IF prog.pMT = "ON"
                  THEN [go EXCEPT !.flag_MT = TRUE,
                                  !.runManager = "G4MTRunManager",
                                  !.Ncores = IF prog.argc = 6 THEN prog.argv5
                                             ELSE prog.hardware,
                                  !.mode = "batch"]
                  ELSE IF prog.pMT = "OFF"
                  THEN [go EXCEPT !.flag_MT = FALSE,
                                  !.runManager = "G4RunManager",
                                  !.mode = "batch"]
                  ELSE LET p == G4Exception(prog, "main0002")
                       IN  IF p.pc = "aborted" THEN p ELSE [p EXCEPT !.pc = "setup"]
             ELSE LET p == G4Exception(prog, "main0003")
                  IN  IF p.pc = "aborted" THEN p ELSE [p EXCEPT !.pc = "setup"]
    /\ UNCHANGED <<EventState, mt, mat>>

\* runManager->SetUserInitialization(...) three times and
\* runManager->Initialize(): with a pointer that was never assigned the
\* behaviour is undefined
mainInitialize ==
    /\ prog.pc = "setup"
    /\ \E outcome \in {"initialized", "undefined"} :
          /\ prog.runManager # "uninitialized" => outcome = "initialized"
          /\ prog' = [prog EXCEPT !.pc = outcome, !.used = TRUE]
    /\ UNCHANGED <<EventState, mt, mat>>

\* the session of the visualization mode, or the macro and /run/beamOn of the
\* batch mode: a run is started
mainBeamOn ==
    /\ prog.pc = "initialized"
    /\ prog' = [prog EXCEPT !.pc = "beamOn"]
    /\ UNCHANGED <<EventState, mt, mat>>

\* ------------------------------------------------------------- run action
\* the threads that have a run action in this run: the master and Ncores
\* workers of a multithreaded run, the only thread of a single-threaded one
ActiveThreads == IF prog.flag_MT THEN 0 .. prog.Ncores ELSE {0}

\* the threads that process events
EventThreads == IF prog.flag_MT THEN 1 .. prog.Ncores ELSE {0}

\* fileName = suffixe + s + ".root", s being "_" + std::to_string(activeThreads)
\* in a multithreaded run and empty otherwise
FileName(flag_MT, activeThreads) ==
    IF flag_MT THEN <<"suffixe", "_", activeThreads, ".root">>
    ELSE <<"suffixe", ".root">>

\* BeginOfRunAction entered with no lock taken
BeginOfRunActionNoLock(t) ==
    /\ prog.pc = "beamOn"
    /\ t \in ActiveThreads
    /\ mt.pc[t] = "idle"
    /\ t # 0 => mt.pc[0] = "ready"
    /\ mt' = [mt EXCEPT !.pc[t] = "begin", !.order = Append(@, t)]
    /\ UNCHANGED <<EventState, prog, mat>>

\* G4AutoLock lock(&fileMutex) of BeginOfRunAction; the master begins the run
\* before the workers are started
BeginOfRunActionLock(t) ==
    /\ prog.pc = "beamOn"
    /\ t \in ActiveThreads
    /\ mt.pc[t] = "idle"
    /\ t # 0 => mt.pc[0] = "ready"
    /\ mt.fileMutex = NoThread
    /\ mt' = [mt EXCEPT !.pc[t] = "begin", !.fileMutex = t,
                        !.order = Append(@, t)]
    /\ UNCHANGED <<EventState, prog, mat>>

\* int a = activeThreads; the file name; f = new TFile(fileName, "RECREATE");
\* the trees and their branches; the seed
BeginOfRunActionOpen(t) ==
    /\ mt.pc[t] = "begin"
    /\ mt' = [mt EXCEPT !.pc[t] = "opened",
                        !.a[t] = mt.activeThreads,
                        !.fileName[t] = FileName(prog.flag_MT, mt.activeThreads),
                        !.f[t] = TRUE]
    /\ UNCHANGED <<EventState, prog, mat>>

\* activeThreads++, and the lock is released on return
BeginOfRunActionReturn(t) ==
    /\ mt.pc[t] = "opened"
    /\ mt' = [mt EXCEPT !.pc[t] = "ready",
                        !.activeThreads = @ + 1,
                        !.fileMutex = NoThread]
    /\ UNCHANGED <<EventState, prog, mat>>

\* UpdateStatistics entered with no lock taken
UpdateStatisticsNoLock(t) ==
    /\ t \in EventThreads
    /\ mt.pc[t] = "ready"
    /\ mt.fills[t] < MaxFills
    /\ mt' = [mt EXCEPT !.pc[t] = "update"]
    /\ UNCHANGED <<EventState, prog, mat>>

\* std::lock_guard<std::mutex> lock(fileMutex) of UpdateStatistics
UpdateStatisticsLock(t) ==
    /\ t \in EventThreads
    /\ mt.pc[t] = "ready"
    /\ mt.fills[t] < MaxFills
    /\ mt.fileMutex = NoThread
    /\ mt' = [mt EXCEPT !.pc[t] = "update", !.fileMutex = t]
    /\ UNCHANGED <<EventState, prog, mat>>

\* UpdateStatistics returning with fileMutex still held
UpdateStatisticsFillKeepsLock(t) ==
    /\ mt.pc[t] = "update"
    /\ mt' = [mt EXCEPT !.pc[t] = "ready",
                        !.fills[t] = IF mt.f[t] THEN @ + 1 ELSE @]
    /\ UNCHANGED <<EventState, prog, mat>>

\* stats = newStats; tree->Fill() if the tree is there, an error message
\* otherwise; and the lock is released on return
UpdateStatisticsFill(t) ==
    /\ mt.pc[t] = "update"
    /\ mt' = [mt EXCEPT !.pc[t] = "ready",
                        !.fills[t] = IF mt.f[t] THEN @ + 1 ELSE @,
                        !.fileMutex = NoThread]
    /\ UNCHANGED <<EventState, prog, mat>>

\* the thread id as the toolkit numbers the threads: -1 for the master of a
\* multithreaded run, 0, 1, ... for its workers, 0 for the only thread of a
\* single-threaded run
G4GetThreadId(t) == IF prog.flag_MT THEN t - 1 ELSE 0

\* OpticalSimulationPrimaryGeneratorAction::threadID, the member that
\* GeneratePrimaries tests: initialised to 0 and assigned nowhere
threadID(t) == 0

\* GeneratePrimaries of the generator of an event thread
GeneratePrimaries(t) ==
    /\ t \in EventThreads
    /\ mt.pc[t] = "ready"
    /\ mt.generated[t] < MaxPrimaries
    /\ mt' = [mt EXCEPT !.generated[t] = @ + 1,
                        !.currentParticleNumber = @ + 1,
                        !.shown[t] = IF threadID(t) = 0 THEN @ + 1 ELSE @]
    /\ UNCHANGED <<EventState, prog, mat>>

\* G4AutoLock lock(&fileMutex) of EndOfRunAction; the master ends the run when
\* the workers have ended it
EndOfRunActionLock(t) ==
    /\ t \in ActiveThreads
    /\ mt.pc[t] = "ready"
    /\ (prog.flag_MT /\ t = 0) => \A w \in EventThreads : mt.pc[w] = "done"
    /\ mt.fileMutex = NoThread
    /\ mt' = [mt EXCEPT !.pc[t] = "end", !.fileMutex = t]
    /\ UNCHANGED <<EventState, prog, mat>>

\* the trees are written, the file is closed and deleted; the lock is released
\* on return
EndOfRunActionWrite(t) ==
    /\ mt.pc[t] = "end"
    /\ mt' = [mt EXCEPT !.pc[t] = "done", !.f[t] = FALSE,
                        !.fileMutex = NoThread]
    /\ UNCHANGED <<EventState, prog, mat>>

\* the run is over: main moves the output and returns 0
mainReturn ==
    /\ prog.pc = "beamOn"
    /\ \A t \in ActiveThreads : mt.pc[t] = "done"
    /\ prog' = [prog EXCEPT !.pc = "exited", !.exit = 0]
    /\ UNCHANGED <<EventState, mt, mat>>

\* the program from its command line to the end of its run
NextRun ==
    \/ \E argc \in 1 .. MaxArgc, pMT \in MTWords \cup {"none"},
          argv5 \in 0 .. MaxCores, hardware \in 1 .. MaxCores,
          returns \in BOOLEAN :
          main(argc, pMT, argv5, hardware, returns)
    \/ mainCheckArguments
    \/ mainDetermineMode
    \/ mainInitialize
    \/ mainBeamOn
    \/ \E t \in Threads : BeginOfRunActionLock(t)
    \/ \E t \in Threads : BeginOfRunActionOpen(t)
    \/ \E t \in Threads : BeginOfRunActionReturn(t)
    \/ \E t \in Threads : GeneratePrimaries(t)
    \/ \E t \in Threads : UpdateStatisticsLock(t)
    \/ \E t \in Threads : UpdateStatisticsFill(t)
    \/ \E t \in Threads : EndOfRunActionLock(t)
    \/ \E t \in Threads : EndOfRunActionWrite(t)
    \/ mainReturn

SpecRun == Init /\ [][NextRun]_vars

\* what a thread does in its run action and its generator
ThreadStep(t) ==
    \/ BeginOfRunActionLock(t)
    \/ BeginOfRunActionOpen(t)
    \/ BeginOfRunActionReturn(t)
    \/ GeneratePrimaries(t)
    \/ UpdateStatisticsLock(t)
    \/ UpdateStatisticsFill(t)
    \/ EndOfRunActionLock(t)
    \/ EndOfRunActionWrite(t)

\* the program under a fair scheduler: a thread that can go on does so
SpecRunFair == SpecRun /\ \A t \in Threads : WF_vars(ThreadStep(t))

\* ------------------------------------------ OpticalSimulationMaterials.cc
\* the material blocks that read three files each
Blocks == <<"EJ212", "ZnS">>

\* file = path + "..." of the three reads of a block
Files ==
    <<<<"EJ-212.cfg", "PSTBulkAbsorb_reverse.cfg", "PS_index_geant_reverse.cfg">>,
      <<"ZnS_spectrum.dat", "LaBr3_absorption_reverse.cfg", "ZnS_index_reverse.cfg">>>>

\* the vectors the k-th read of a block appends to
EnergyOf == <<"Emission_Energy", "Absorption_Energy", "Index_Energy">>
ValueOf == <<"Emission_Ratio", "Absorption_Long", "Index_Value">>

\* the wavelengths (nm) of the lines of a file, in the order of the lines
Wavelengths == <<620, 310>>

\* the value column of line i of the k-th file of block b
Value(b, k, i) == 100 * b + 10 * k + i

\* what an uninitialised G4double may hold
Garbage == {0, 1240}

\* 0.15 * mm, in micrometres
ZnSAbsorptionLength == 150

\* 1240. / 0. in IEEE arithmetic
Infinity == 999999

\* (1240 / pWavelength) * eV, in eV
Energy(w) == IF w = 0 THEN Infinity ELSE 1240 \div w

\* what push_back appends beside the energy, for the k-th read of block b
Pushed(b, k, value) ==
    IF Blocks[b] = "ZnS" /\ k = 2 THEN ZnSAbsorptionLength ELSE value

\* the files the input directory may hold
DiskFiles ==
    {NoSuchFile} \cup
    {[exists |-> TRUE, n |-> 0, nl |-> FALSE]} \cup
    [exists : {TRUE}, n : 1 .. MaxLines, nl : BOOLEAN]

\* the constructor is entered; the members without initialiser hold whatever
\* the allocation (or an earlier read of the constructor) left in them
Materials ==
    /\ mat.pc = "new"
    /\ \E w \in Garbage, x \in Garbage :
          mat' = [mat EXCEPT !.pc = "clear", !.block = 1,
                             !.pWavelength = w, !.var = x]
    /\ UNCHANGED <<EventState, prog, mt>>

\* a block that keeps the vectors of the material before it
ClearKeepsVectors ==
    /\ mat.pc = "clear"
    /\ mat' = [mat EXCEPT !.pc = "open", !.stream = 1, !.s = NoStream]
    /\ UNCHANGED <<EventState, prog, mt>>

\* Read.clear(); Readabsorb.clear(); Readindex.clear(); and the .clear() of
\* the six vectors at the head of a material block
Clear ==
    /\ mat.pc = "clear"
    /\ mat' = [mat EXCEPT !.pc = "open", !.stream = 1, !.s = NoStream,
                          !.v = NoVectors]
    /\ UNCHANGED <<EventState, prog, mt>>

\* Stream.open(file); if (Stream.is_open()) ... else G4cout << "Error
\* opening file: " << file
Open(d) ==
    /\ mat.pc = "open"
    /\ mat' = [mat EXCEPT
            !.disk = d,
            !.opened[mat.block][mat.stream] = d,
            !.s = [is_open |-> d.exists, eof |-> FALSE, pos |-> 0],
            !.log = IF d.exists THEN @
                    ELSE @ \cup {Files[mat.block][mat.stream]},
            !.pc = IF d.exists THEN "loop" ELSE "close"]
    /\ UNCHANGED <<EventState, prog, mt>>

\* Stream >> pWavelength >> filler >> var;  A line is read if one is left,
\* and eofbit is set when the last number ends at the end of the file;
\* with no line left the extraction fails at the end of the file and leaves
\* the two members as they were.
Extract(m) ==
    IF m.s.pos < m.disk.n
    THEN [m EXCEPT !.pWavelength = Wavelengths[m.s.pos + 1],
                   !.var = Value(m.block, m.stream, m.s.pos + 1),
                   !.s.pos = @ + 1,
                   !.s.eof = (m.s.pos + 1 = m.disk.n) /\ ~m.disk.nl]
    ELSE [m EXCEPT !.s.eof = TRUE]

\* X_Energy.push_back((1240 / pWavelength) * eV); X_Value.push_back(...)
PushBack(m) ==
    [m EXCEPT !.v[EnergyOf[m.stream]] = Append(@, Energy(m.pWavelength)),
              !.v[ValueOf[m.stream]] =
                  Append(@, Pushed(m.block, m.stream, m.var))]

\* one turn of while (!Stream.eof()) { ... }
Read ==
    /\ mat.pc = "loop"
    /\ ~mat.s.eof
    /\ mat' = PushBack(Extract(mat))
    /\ UNCHANGED <<EventState, prog, mt>>

\* the loop is left at eof();  Stream.close();  and the next read of the
\* block follows, or its AddProperty calls
Close ==
    /\ \/ mat.pc = "loop" /\ mat.s.eof
       \/ mat.pc = "close"
    /\ mat' = [mat EXCEPT !.s = NoStream, !.disk = NoSuchFile,
                          !.stream = IF @ < 3 THEN @ + 1 ELSE 0,
                          !.pc = IF mat.stream < 3 THEN "open" ELSE "add"]
    /\ UNCHANGED <<EventState, prog, mt>>

\* MPT->AddProperty("RINDEX", ...), ("ABSLENGTH", ...),
\* ("SCINTILLATIONCOMPONENT1", ...); fMaterialsList.push_back(material);
\* and the next block follows
AddProperty ==
    /\ mat.pc = "add"
    /\ mat' = [mat EXCEPT !.table[mat.block] = mat.v,
                          !.block = IF @ < Len(Blocks) THEN @ + 1 ELSE @,
                          !.pc = IF mat.block < Len(Blocks) THEN "clear"
                                 ELSE "done"]
    /\ UNCHANGED <<EventState, prog, mt>>

NextMat ==
    \/ Materials
    \/ Clear
    \/ \E d \in DiskFiles : Open(d)
    \/ Read
    \/ Close
    \/ AddProperty

SpecMat == Init /\ [][NextMat]_vars

\* ================================================================== claims
\* the observed callback of the single-callback specification has been made
\* for the track being stepped
Observed == cur # NoStep /\ trk.stepNo > 0

ObservedPhoton == Observed /\ trk.particle = "opticalphoton"

\* the four counters of the boundary switch
BoundarySum(so) == so.Detected + so.Absorbed + so.Failed + so.Escaped

DetectionSequences(so) ==
    <<so.DetectorPositionX, so.DetectorPositionY, so.DetectorPositionZ,
      so.BirthWavelengthDetected, so.Time, so.TotalLength>>

\* ---------------------------------------------------------------------- C1
\* C1: a photon step handed to the classifier increments at most one of the
\* terminal counters Detected, Absorbed, BulkAbsZnS, BulkAbsSc, Escaped, Failed,
\* by exactly 1; when the defining process is OpAbsorption the bulk rule wins
\* and none of Detected, Absorbed, Failed, Escaped is incremented in that step,
\* whatever the boundary status and the step status.  (All six counters are 0
\* before the observed callback.)
C1_AtMostOneTerminalCounter ==
    (ObservedPhoton /\ PhotonTrackStatus) =>
        /\ TerminalSum(StatsOptical) <= 1
        /\ (cur.endproc = "OpAbsorption" => BoundarySum(StatsOptical) = 0)

\* ---------------------------------------------------------------------- C2
\* C2: over the lifetime of one photon track the terminal counters are
\* incremented at most once in total.
C2_ClassifiedOncePerTrack ==
    trk.particle = "opticalphoton" => trk.nTerminal <= 1

\* ---------------------------------------------------------------------- C3
\* the reference mapping: the counter a step that is not a bulk absorption is
\* to increment, "none" for no terminal classification
ReferenceCounter(stepStatus, boundaryStatus, nextVolume) ==
    IF stepStatus # "fGeomBoundary" THEN "none"
    ELSE IF boundaryStatus = "Detection" THEN "Detected"
    ELSE IF boundaryStatus = "Absorption" /\ nextVolume = "Photocathode" THEN "Failed"
    ELSE IF boundaryStatus = "Absorption" THEN "Absorbed"
    ELSE IF boundaryStatus = "NoRINDEX" THEN "Escaped"
    ELSE "none"

TerminalCounters ==
    {"Detected", "Absorbed", "BulkAbsZnS", "BulkAbsSc", "Escaped", "Failed"}

\* C3: for a photon step whose defining process is not OpAbsorption, the
\* classifier changes the counters as the reference mapping says: on a
\* geometric boundary Detection -> Detected+1 (with one entry in each detection
\* sequence), Absorption into 'Photocathode' -> Failed+1 only, Absorption
\* elsewhere -> Absorbed+1 only, NoRINDEX -> Escaped+1 only, every other status
\* nothing; off a geometric boundary nothing, whatever the boundary status.
C3_BoundaryMapping ==
    (ObservedPhoton /\ PhotonTrackStatus /\ cur.endproc # "OpAbsorption") =>
        LET ref == ReferenceCounter(cur.stepStatus, cur.boundaryStatus, trk.vol)
        IN  /\ \A c \in TerminalCounters :
                 StatsOptical[c] = IF c = ref THEN 1 ELSE 0
            /\ \A i \in 1..6 :
                 Len(DetectionSequences(StatsOptical)[i])
                   = IF ref = "Detected" THEN 1 ELSE 0
            /\ StatsOptical.Killed = 0

\* an absorption at the boundary to the photocathode counts as Failed only
C3_Witness ==
    /\ ObservedPhoton /\ PhotonTrackStatus
    /\ cur.endproc = "Transportation"
    /\ cur.stepStatus = "fGeomBoundary"
    /\ cur.boundaryStatus = "Absorption"
    /\ trk.vol = "Photocathode"
    /\ StatsOptical.Failed = 1
    /\ StatsOptical.Absorbed = 0

\* ---------------------------------------------------------------------- C4
\* C4: a photon step ended by OpAbsorption increments exactly one bulk counter
\* by 1: BulkAbsZnS if the pre-step volume is 'ZnS', BulkAbsSc for every other
\* pre-step volume.
C4_BulkAttribution ==
    (ObservedPhoton /\ PhotonTrackStatus /\ cur.endproc = "OpAbsorption") =>
        /\ StatsOptical.BulkAbsZnS = (IF cur.volumeNamePreStep = "ZnS" THEN 1 ELSE 0)
        /\ StatsOptical.BulkAbsSc = (IF cur.volumeNamePreStep = "ZnS" THEN 0 ELSE 1)

\* a photon absorbed in the glass of the photomultiplier counts for the scintillator
C4_Witness ==
    /\ ObservedPhoton /\ PhotonTrackStatus
    /\ cur.endproc = "OpAbsorption"
    /\ cur.volumeNamePreStep = "PMT_Glass"
    /\ StatsOptical.BulkAbsSc = 1
    /\ StatsOptical.BulkAbsZnS = 0

\* ---------------------------------------------------------------------- C5
\* C5: each Detection increments Detected by 1 and appends to each of the six
\* detection sequences one entry, the one of the photon of that step (its
\* post-step position, its wavelength, its time and its track length); every
\* other step leaves Detected and the six sequences alone, and the start of an
\* event empties them; so the six lengths always equal Detected and entry i is
\* that of the i-th detected photon.
C5_DetectionSequences ==
    /\ [](\A i \in 1..6 :
             Len(DetectionSequences(StatsOptical)[i]) = StatsOptical.Detected)
    /\ [][LET so == StatsOptical
              sn == StatsOptical'
          IN  \/ sn = RunTallyOptical0
              \/ /\ sn.Detected = so.Detected
                 /\ DetectionSequences(sn) = DetectionSequences(so)
              \/ /\ sn.Detected = so.Detected + 1
                 /\ sn.DetectorPositionX = Append(so.DetectorPositionX, trk'.pos.x)
                 /\ sn.DetectorPositionY = Append(so.DetectorPositionY, trk'.pos.y)
                 /\ sn.DetectorPositionZ = Append(so.DetectorPositionZ, trk'.pos.z)
                 /\ sn.BirthWavelengthDetected
                      = Append(so.BirthWavelengthDetected, Wavelength(trk.E))
                 /\ sn.Time = Append(so.Time, trk'.stepNo * StepTime)
                 /\ sn.TotalLength = Append(so.TotalLength, trk'.stepNo * StepLength)
         ]_vars

\* two photons detected in one event, at two places
C5_Witness ==
    /\ StatsOptical.Detected = 2
    /\ StatsOptical.DetectorPositionX = <<0, 1>>
    /\ StatsOptical.DetectorPositionZ = <<0, 3>>
    /\ Len(StatsOptical.Time) = 2

\* ---------------------------------------------------------------------- C6
\* the creation counter of a process in a volume, "none" where the claim
\* counts nothing
CreationCounter(creator, volumeNamePreStep) ==
    IF creator = "Scintillation"
    THEN IF volumeNamePreStep = "ZnS" THEN "ScintillationZnS" ELSE "ScintillationSc"
    ELSE IF creator = "Cerenkov"
    THEN IF volumeNamePreStep = "ZnS" THEN "CerenkovZnS" ELSE "CerenkovSc"
    ELSE "none"

CreationCounters ==
    {"ScintillationZnS", "ScintillationSc", "CerenkovZnS", "CerenkovSc"}

\* C6: at the first step of a photon created by Scintillation or Cerenkov
\* exactly one of the four creation counters is incremented by 1 and one
\* creation angle and one birth wavelength are appended; for any other creation
\* process nothing is counted or appended; so the lengths of Angle_creation and
\* BirthWavelength always equal the sum of the four creation counters.
C6_CreationCounting ==
    /\ Len(StatsOptical.Angle_creation) = CreationSum(StatsOptical)
    /\ Len(StatsOptical.BirthWavelength) = CreationSum(StatsOptical)
    /\ (ObservedPhoton /\ trk.stepNo = 1) =>
          IF trk.creator \in {"Scintillation", "Cerenkov"}
          THEN /\ CreationSum(StatsOptical) = 1
               /\ Len(StatsOptical.Angle_creation) = 1
               /\ Len(StatsOptical.BirthWavelength) = 1
          ELSE /\ CreationSum(StatsOptical) = 0
               /\ StatsOptical.Angle_creation = <<>>
               /\ StatsOptical.BirthWavelength = <<>>

\* ---------------------------------------------------------------------- C7
\* C7: the GeneratedTotal of the optical record handed to the run-level writer
\* at the end of an event equals the sum of the four creation counters of that
\* record.
C7_GeneratedTotal ==
    run.nOptical > 0 =>
        run.StatsOptical.GeneratedTotal = CreationSum(run.StatsOptical)

\* ---------------------------------------------------------------------- C8
\* C8: at the end of an event all of whose photon tracks have terminated,
\* Absorbed + BulkAbsZnS + BulkAbsSc + Escaped + Failed + Detected + Killed
\* equals the number of photons generated in the event, the sum of the four
\* creation counters.
C8_PhotonConservation ==
    (phase = "idle" /\ run.nOptical > 0) =>
        TerminalSum(run.StatsOptical) + run.StatsOptical.Killed
          = CreationSum(run.StatsOptical)

\* ---------------------------------------------------------------------- C9
\* the optical record without what the first-step block of a photon writes
WithoutBirthRecord(so) ==
    [so EXCEPT !.Angle_creation = <<>>, !.BirthWavelength = <<>>,
               !.ScintillationZnS = 0, !.ScintillationSc = 0,
               !.CerenkovZnS = 0, !.CerenkovSc = 0]

C10_WorldKill ==
    (Observed /\ phase # "crashed") =>
        IF trk.vol = "World"
        THEN trk.status = "fStopAndKill"
        ELSE trk.status =
               IF trk.particle = "opticalphoton" /\ ~PhotonTrackStatus
               THEN "fStopAndKill" ELSE cur.statusIn

\* an electron the toolkit left alive is killed on entering the world volume
C10_Witness ==
    /\ Observed
    /\ phase = "event"
    /\ trk.particle = "e-"
    /\ trk.vol = "World"
    /\ cur.statusIn = "fAlive"
    /\ trk.status = "fStopAndKill"

\* --------------------------------------------------------------------- C11
\* BeginOfEventAction has just returned: the event has begun and no track of it
\* has been taken yet
JustBegun == phase = "event" /\ trk = NoTrack

\* the per-photon sequences of the optical record
OpticalSequences ==
    {"DetectorPositionX", "DetectorPositionY", "DetectorPositionZ",
     "BirthWavelength", "BirthWavelengthDetected", "Time", "TotalLength",
     "Angle_creation"}

EmptyTally(t) ==
    /\ t.x_entrance = <<>> /\ t.y_entrance = <<>> /\ t.z_entrance = <<>>
    /\ t.parentID = <<>> /\ t.particleID = <<>> /\ t.energy = <<>>
    /\ t.total_deposited_energy = <<>>
    /\ t.deposited_energy = 0 /\ t.deposited_energy_event = 0
    /\ t.flag = FALSE

\* C11: after BeginOfEventAction, whatever the previous event left, every
\* optical counter is 0 and every per-photon sequence empty, the input record
\* is all zeros, and both detector tallies have empty vectors, zero
\* deposited_energy and deposited_energy_event and a false flag.
C11_BeginResets ==
    JustBegun =>
        /\ \A f \in DOMAIN StatsOptical \ OpticalSequences : StatsOptical[f] = 0
        /\ \A f \in OpticalSequences : StatsOptical[f] = <<>>
        /\ \A f \in DOMAIN StatsInput : StatsInput[f] = 0
        /\ EmptyTally(StatsZnS)
        /\ EmptyTally(StatsScintillator)

\* the second event begins after a first one that ended with an episode open
\* in the ZnS layer and with a photon counted
C11_Witness ==
    /\ JustBegun
    /\ nEvents = 2
    /\ run.StatsZnS.flag = TRUE
    /\ run.StatsZnS.deposited_energy > 0
    /\ run.StatsOptical.Killed + TerminalSum(run.StatsOptical) > 0
    /\ EmptyTally(StatsZnS)
    /\ StatsOptical.Killed + TerminalSum(StatsOptical) = 0

\* --------------------------------------------------------------------- C12
\* the tally of a detector volume
Tally(vol, zns, sc) == IF vol = "ZnS" THEN zns ELSE sc

\* a stepping callback has just been made for a step that starts in a
\* detector volume
ScStepDone == nCalls' = nCalls + 1 /\ trk'.stay.vol # "none"

\* C12: when a particle that has entered a detector volume (for the first
\* time) has taken k >= 1 steps in a row inside it and the last of them ends
\* in 'Holder' or with no kinetic energy, that step appends exactly one value
\* to total_deposited_energy, the sum of the energy deposited in those k
\* steps, and leaves the flag false and the per-episode accumulator 0; no step
\* that does not end so appends a total; a first step inside the volume made
\* when the flag has been cleared records a new entry and starts a new total
\* from 0.
C12_EpisodeAccounting ==
    [][ScStepDone =>
          LET stay == trk'.stay
              old == Tally(stay.vol, StatsZnS, StatsScintillator)
              new == Tally(stay.vol, StatsZnS', StatsScintillator')
          IN  /\ (stay.closed /\ stay.first) =>
                   /\ new.total_deposited_energy
                        = Append(old.total_deposited_energy, stay.sum)
                   /\ new.flag = FALSE
                   /\ new.deposited_energy = 0
              /\ ~stay.closed =>
                   new.total_deposited_energy = old.total_deposited_energy
              /\ (stay.k = 1 /\ ~old.flag) =>
                   /\ Len(new.energy) = Len(old.energy) + 1
                   /\ new.deposited_energy = IF stay.closed THEN 0 ELSE stay.sum
       ]_vars

\* --------------------------------------------------------------------- C13
\* C13: the first step of a non-optical track inside a detector volume records
\* exactly one entry for that track (entrance position, parent ID, particle ID,
\* entry energy), also when another track's episode in that volume was opened
\* earlier in the event and has not been closed.
C13_EntryPerTrack ==
    [][(ScStepDone /\ trk'.stay.k = 1 /\ trk'.stay.first) =>
          LET vol == trk'.stay.vol
              old == Tally(vol, StatsZnS, StatsScintillator)
              new == Tally(vol, StatsZnS', StatsScintillator')
          IN  /\ new.x_entrance = Append(old.x_entrance, trk.pos.x)
              /\ new.y_entrance = Append(old.y_entrance, trk.pos.y)
              /\ new.z_entrance = Append(old.z_entrance, trk.pos.z)
              /\ new.parentID = Append(old.parentID, ParentID(trk))
              /\ new.particleID = Append(old.particleID, ParticleID(trk))
              /\ new.energy = Append(old.energy, trk.E)
       ]_vars


\* --------------------------------------------------------------------- C14
\* C14: when an event in which photons were generated has been finalized, the
\* generated total G of its record is the number of photons generated, the
\* percentages have been computed, and each of them is 100 x count / G: for
\* the surface-absorbed, the bulk-absorbed (ZnS, Scintillator, total), the
\* escaped, the transmitted and the killed photons.
C14_Fractions ==
    (phase = "idle" /\ run.nOptical > 0 /\ CreationSum(run.StatsOptical) > 0) =>
        LET so == run.StatsOptical
            G == so.GeneratedTotal
        IN  /\ G = CreationSum(so)
            /\ console.printed
            /\ console.Absfrac * G = 100 * so.Absorbed
            /\ console.BulkfracZnS * G = 100 * so.BulkAbsZnS
            /\ console.BulkfracSc * G = 100 * so.BulkAbsSc
            /\ console.BulkfracTotal * G = 100 * (so.BulkAbsZnS + so.BulkAbsSc)
            /\ console.Escfrac * G = 100 * so.Escaped
            /\ console.Failfrac * G = 100 * so.Failed
            /\ console.Killedfrac * G = 100 * so.Killed

\* --------------------------------------------------------------------- C15
\* C15: an event that is ended right after it was begun, with no step in
\* between, is finalized without an arithmetic fault, its optical record is
\* emitted, and the generated total of that record is 0; no finalization at
\* all divides by a zero total.
EmptyEventEnded == trk = NoTrack /\ nEvents > 0 /\ phase # "event"

C15_EmptyEvent ==
    /\ phase # "fault"
    /\ EmptyEventEnded =>
          /\ phase = "idle"
          /\ run.nOptical = nEvents
          /\ run.StatsOptical.GeneratedTotal = 0
          /\ console = NoReport

C15_Witness ==
    EmptyEventEnded /\ phase = "idle" /\ nEvents = MaxEvents /\ run.nZnS > 0

\* --------------------------------------------------------------------- C16
\* a finalization of an event that has already been finalized
SecondFinalization ==
    /\ phase = "idle" /\ phase' = "idle"
    /\ nEvents > 0
    /\ PhotonTrackStatus' = PhotonTrackStatus

\* C16: EndOfEventAction called a second time with no BeginOfEventAction in
\* between emits no record to the run-level writer again (no second fill of
\* the Input, ZnS, Scintillator or Optical tree) and changes no finalized
\* counter.
C16_NoReEmission ==
    [][SecondFinalization =>
         /\ run' = run
         /\ UNCHANGED <<StatsInput, StatsZnS, StatsScintillator, StatsOptical>>]_vars

\* --------------------------------------------------------------------- C17
\* the optical records emitted so far are one per finalized event, the last
\* of them is the record of the last finalized event, and the record of the
\* event in progress holds at most one birth per track of that event
OneRecordPerEvent ==
    /\ phase = "idle" => run.nOptical = nEvents
    /\ phase # "idle" => run.nOptical = nEvents - 1
    /\ (phase = "idle" /\ nEvents > 0) => run.StatsOptical = StatsOptical
    /\ Len(StatsOptical.Angle_creation) <= trk.id

\* C17: the stepping callbacks of an event are made after its
\* BeginOfEventAction and before its EndOfEventAction; exactly one optical
\* record is emitted per event, with or without photons, and it holds only
\* what was recorded between the two.
C17_OneRecordPerEvent ==
    /\ []OneRecordPerEvent
    /\ [][nCalls' # nCalls => (phase = "event" /\ phase' # "idle")]_vars

\* two events finalized, the first with a photon recorded, the second without
C17_Witness ==
    /\ phase = "idle" /\ nEvents = MaxEvents /\ run.nOptical = MaxEvents
    /\ nCalls > 0
    /\ StatsOptical.Angle_creation = <<>>

\* --------------------------------------------------------------------- C18
\* the thread is inside one of the three sections guarded by fileMutex
InSection(t) == mt.pc[t] \in {"begin", "opened", "update", "end"}

\* C18: at most one thread at a time, master or worker, is inside the file and
\* tree creation of BeginOfRunAction, the copy-and-fill of UpdateStatistics or
\* the writing and closing of EndOfRunAction, and that thread holds fileMutex.
C18_MutualExclusion ==
    \A t1, t2 \in Threads :
        (InSection(t1) /\ InSection(t2)) => (t1 = t2 /\ mt.fileMutex = t1)

\* a worker fills a tree while another worker has still to begin its run and
\* the master has begun it
C18_Witness ==
    \E t1, t2 \in Threads :
        /\ mt.pc[t1] = "update" /\ mt.fills[t1] = 1
        /\ mt.pc[t2] = "idle" /\ t2 \in ActiveThreads
        /\ mt.pc[0] = "ready"

\* --------------------------------------------------------------------- C19
\* C19: in a multithreaded run the k-th BeginOfRunAction to run, counting from
\* 0, names its file '<base>_<k>.root', so that no two threads have the same
\* file name; in a single-threaded run the name is '<base>.root'.
C19_DistinctFileNames ==
    /\ \A k \in 1 .. Len(mt.order) :
          LET t == mt.order[k]
          IN  mt.fileName[t] # NoFile =>
                 mt.fileName[t] = IF prog.flag_MT
                                  THEN <<"suffixe", "_", k - 1, ".root">>
                                  ELSE <<"suffixe", ".root">>
    /\ \A t1, t2 \in Threads :
          (t1 # t2 /\ mt.fileName[t1] # NoFile /\ mt.fileName[t2] # NoFile) =>
              mt.fileName[t1] # mt.fileName[t2]
    /\ \A t \in Threads : mt.f[t] => mt.fileName[t] # NoFile

\* the master and two workers have their files open, the second worker having
\* begun its run before the first
C19_Witness ==
    /\ prog.flag_MT
    /\ mt.order = <<0, 2, 1>>
    /\ \A t \in 0 .. 2 : mt.f[t]
    /\ mt.fileName[2] = <<"suffixe", "_", 1, ".root">>

\* --------------------------------------------------------------------- C20
\* main has dealt with its command line
Decided == prog.pc \notin {"none", "start", "mode"}

\* C20: without an output-file argument main reports a fatal error and its
\* exit code is 1; with 3 or 4 words it aborts on 'Incorrect number of input
\* parameters'; with 5 words or more and an MT argument that is neither 'ON'
\* nor 'OFF' it aborts; in these three cases no run manager is used and no run
\* is started.  With 2 words the run is single-threaded (visualization), with
\* 'ON' multithreaded, with 'OFF' single-threaded.
C20_CommandLine ==
    Decided =>
      /\ prog.argc < 2 =>
            /\ prog.fatal = "main0004"
            /\ prog.pc = "exited" /\ prog.exit = 1
            /\ ~prog.used
      /\ prog.argc \in {3, 4} =>
            /\ prog.fatal = "main0003"
            /\ prog.pc = "aborted"
            /\ ~prog.used
      /\ (prog.argc >= 5 /\ prog.pMT \notin {"ON", "OFF"}) =>
            /\ prog.fatal = "main0002"
            /\ prog.pc = "aborted"
            /\ ~prog.used
      /\ prog.argc = 2 =>
            /\ prog.runManager = "G4RunManager" /\ ~prog.flag_MT
            /\ prog.mode = "visualization"
      /\ (prog.argc >= 5 /\ prog.pMT = "ON") =>
            prog.runManager = "G4MTRunManager" /\ prog.flag_MT
      /\ (prog.argc >= 5 /\ prog.pMT = "OFF") =>
            prog.runManager = "G4RunManager" /\ ~prog.flag_MT

\* --------------------------------------------------------------------- C23
\* an optical photon has made its first step, and only that one, and the
\* callback has recorded its birth
PhotonFirstStepDone ==
    /\ phase = "event"
    /\ trk.particle = "opticalphoton" /\ trk.stepNo = 1
    /\ StatsOptical.Angle_creation # <<>>

\* C23: the creation angle appended at the first step of an optical photon is
\* the angle of that step, acos of the difference of its own post-step and
\* pre-step x over its length; the callback leaves the positions of that step
\* in preStep and postStep.
C23_CreationAngle ==
    PhotonFirstStepDone =>
        StatsOptical.Angle_creation[Len(StatsOptical.Angle_creation)]
          = AcosDeg(postStep.x - preStep.x)

\* --------------------------------------------------------------------- C24
\* a stepping callback has just been made for a step of a non-optical
\* particle that starts in a detector volume and ends in another volume
ExitStepDone == ScStepDone /\ trk'.vol # trk'.stay.vol

\* C24: a step of a non-optical particle that starts in a detector volume and
\* ends in a different volume closes the episode of the volume it leaves: one
\* total is appended, the accumulator is 0 and the flag false afterwards, so
\* that the tally has as many episode totals as entry records.
C24_ExitClosesEpisode ==
    [][ExitStepDone =>
          LET vol == trk'.stay.vol
              old == Tally(vol, StatsZnS, StatsScintillator)
              new == Tally(vol, StatsZnS', StatsScintillator')
          IN  /\ Len(new.total_deposited_energy)
                   = Len(old.total_deposited_energy) + 1
              /\ new.deposited_energy = 0
              /\ new.flag = FALSE
              /\ Len(new.total_deposited_energy) = Len(new.energy)
       ]_vars

\* --------------------------------------------------------------------- C27
\* the fields of the optical record that only the derivation block writes
DerivedFields ==
    {"IncidentE", "DepositTotal", "GeneratedSc", "GeneratedZnS",
     "GeneratedTotal", "BulkAbsTotal"}

\* C27: ScintillationSc is never negative during an event, so the guard of
\* the derivation block is false at every event end: nothing is printed and
\* IncidentE, DepositTotal, GeneratedSc, GeneratedZnS, GeneratedTotal and
\* BulkAbsTotal are 0 in every optical record emitted.
C27_DerivationNeverRuns ==
    /\ StatsOptical.ScintillationSc >= 0
    /\ console = NoReport
    /\ \A f \in DerivedFields : StatsOptical[f] = 0 /\ run.StatsOptical[f] = 0

\* an emitted record of an event with a primary of non-zero energy and a
\* scintillation photon generated in the scintillator
C27_Witness ==
    /\ phase = "idle" /\ run.nOptical > 0
    /\ run.nInput > 0
    /\ run.StatsOptical.ScintillationSc > 0

\* --------------------------------------------------------------------- C28
\* the lengths of the sequences of a tally agree
Aligned(tally) ==
    LET n == Len(tally.energy)
    IN  /\ Len(tally.x_entrance) = n
        /\ Len(tally.y_entrance) = n
        /\ Len(tally.z_entrance) = n
        /\ Len(tally.parentID) = n
        /\ Len(tally.particleID) = n
        /\ Len(tally.total_deposited_energy) = IF tally.flag THEN n - 1 ELSE n
        /\ ~tally.flag => tally.deposited_energy = 0

\* C28: in each detector tally the six entry sequences have the same length
\* n, total_deposited_energy has length n when the flag is false and n - 1
\* when it is true, and the accumulator is 0 whenever the flag is false.
C28_TallyAligned == Aligned(StatsZnS) /\ Aligned(StatsScintillator)

\* an episode is open in the ZnS tally after another one was closed
C28_Witness ==
    /\ StatsZnS.flag
    /\ Len(StatsZnS.energy) = 2
    /\ Len(StatsZnS.total_deposited_energy) = 1
    /\ StatsZnS.deposited_energy > 0

\* --------------------------------------------------------------------- C29
RECURSIVE SumSeq(_)
SumSeq(q) == IF q = <<>> THEN 0 ELSE Head(q) + SumSeq(Tail(q))

\* the event total of a tally is the sum of its episode totals and of the
\* open accumulator, and the sum of the deposits made in its volume
Conserved(tally, deposits) ==
    /\ tally.deposited_energy_event
         = SumSeq(tally.total_deposited_energy) + tally.deposited_energy
    /\ tally.deposited_energy_event = deposits

DepositsConserved ==
    /\ Conserved(StatsZnS, trk.dep.ZnS)
    /\ Conserved(StatsScintillator, trk.dep.Scintillator)

\* a stepping callback has just been made for an optical photon or for a step
\* that does not start in a detector volume
OtherStepDone == nCalls' = nCalls + 1 /\ trk'.stay = NoStay

\* C29: at every point of an event, deposited_energy_event of a tally equals
\* the sum of its episode totals plus the open accumulator, and the sum of the
\* deposits of the non-optical steps that started in its volume since
\* BeginOfEventAction; a step of an optical photon or one that starts in
\* another volume changes neither tally.
C29_DepositConservation ==
    /\ []DepositsConserved
    /\ [][OtherStepDone =>
            UNCHANGED <<StatsZnS, StatsScintillator>>]_vars

\* an optical photon has made a step after a non-optical particle deposited
\* energy in the ZnS layer
C29_Witness ==
    /\ trk.particle = "opticalphoton" /\ trk.stepNo > 0
    /\ StatsZnS.deposited_energy_event > 0
    /\ StatsZnS.deposited_energy > 0

\* --------------------------------------------------------------------- C22
\* an event is finalized by a run action whose trees are null
FinalizedWithoutTrees == phase = "event" /\ phase' = "idle" /\ ~run.trees

\* C22: when UpdateStatistics is called while the tree is null, an error is
\* logged, no fill is made, the statistics object of the run action is left
\* as it was, and the call returns so that the run goes on.
C22_NullTreeSkipsUpdate ==
    [][FinalizedWithoutTrees =>
          /\ run'.nErrors > run.nErrors
          /\ run'.nInput = run.nInput /\ run'.nZnS = run.nZnS
          /\ run'.nScintillator = run.nScintillator
          /\ run'.nOptical = run.nOptical
          /\ run'.StatsInput = run.StatsInput
          /\ run'.StatsZnS = run.StatsZnS
          /\ run'.StatsScintillator = run.StatsScintillator
          /\ run'.StatsOptical = run.StatsOptical
       ]_vars

\* --------------------------------------------------------------------- C21
\* the k-th file of block b has been asked for and could not be opened
OpenFailed(b, k) ==
    /\ \/ mat.block > b
       \/ /\ mat.block = b
          /\ \/ mat.pc \in {"add", "done"}
             \/ mat.stream > k
             \/ mat.stream = k /\ mat.pc \in {"loop", "close"}
    /\ ~mat.opened[b][k].exists

Samples(b, k, n) ==
    [Energy |-> [i \in 1 .. n |-> Energy(Wavelengths[i])],
     Value |-> [i \in 1 .. n |-> Pushed(b, k, Value(b, k, i))]]

\* C25: a file of n lines, with or without a final newline, gives exactly n
\* samples, in the order of the lines.
C25_OneSamplePerLine ==
    \A k \in 1 .. 3 :
        LET b == mat.block
            d == mat.opened[b][k]
        IN  /\ mat.pc = "add"
            /\ d.exists
            => /\ mat.v[EnergyOf[k]] = Samples(b, k, d.n).Energy
               /\ mat.v[ValueOf[k]] = Samples(b, k, d.n).Value

\* --------------------------------------------------------------------- C26
\* C26: in a multithreaded run GeneratePrimaries calls ShowProgress on the
\* worker whose thread id is 0 only; no other worker calls it.
C26_ProgressOnThreadZeroOnly ==
    prog.flag_MT =>
        \A t \in Threads : mt.shown[t] > 0 => G4GetThreadId(t) = 0

\* --------------------------------------------------------------------- C30
\* the thread has called BeginOfRunAction and waits for fileMutex, or holds it
BeginRequested(t) ==
    /\ prog.pc = "beamOn" /\ t \in ActiveThreads
    /\ mt.pc[t] = "idle"
    /\ t # 0 => mt.pc[0] = "ready"

\* the thread has completed EndOfRunAction: its file is closed and it does
\* not hold fileMutex
RunCompleted(t) == mt.pc[t] = "done" /\ ~mt.f[t] /\ mt.fileMutex # t

\* C30: under fair scheduling a thread that requests fileMutex in
\* BeginOfRunAction gets it, and every thread that begins a run completes
\* EndOfRunAction with its file closed: no thread waits for ever for
\* fileMutex.
C30_NoDeadlock ==
    \A t \in Threads :
        /\ BeginRequested(t) ~> (mt.pc[t] = "begin")
        /\ (mt.pc[t] = "begin") ~> RunCompleted(t)

\* the master and two workers have completed their runs, the workers with all
\* their fills made
C30_Witness ==
    /\ prog.flag_MT /\ prog.Ncores = 2
    /\ \A t \in 0 .. 2 : RunCompleted(t)
    /\ \A t \in 1 .. 2 : mt.fills[t] = MaxFills

====
